---- MODULE Spec2Model ----
(***************************************************************************)
(* QuackScript's tree-walking interpreter (Lib/quackscript/src/interpreter *)
(* /index.ts) as a state machine.  The interpreter object holds a Memory   *)
(* (a stack of scopes), a State (a stack of context tags) and a System     *)
(* (stdout, stderr, loadFile).  A host parses a source text into a         *)
(* ModuleNode and hands it to execute; execute walks the tree.  The walk   *)
(* is written as operators that thread the interpreter's state, and the    *)
(* action Execute is one call of execute.                                  *)
(***************************************************************************)
EXTENDS Integers, Sequences, FiniteSets, TLC

VARIABLES
    source,     \* the module as the host's parser yields it from the source text
    tree,       \* statements of the ModuleNode the host holds (execute mutates it)
    memory,     \* Interpreter._memory: the stack of scopes, innermost last
    state,      \* Interpreter._state: the stack of context tags
    stdout,     \* emissions on System.stdout during the latest execute call
    stderr,     \* emissions on System.stderr during the latest execute call
    loaded,     \* paths handed to System.loadFile during the latest execute call
    calls,      \* one record per executeFunctionCall of the latest execute call
                \* that has ended, in order of exit
    history     \* one record per execute call on this interpreter, oldest first

vars == <<source, tree, memory, state, stdout, stderr, loaded, calls, history>>

-----------------------------------------------------------------------------
(* Bounds of the model *)

\* longest module body (top-level statements after the optional import of
\* lib) the host parses
MaxLen == 2
\* nesting of function calls and imports the JavaScript call stack allows
\* before it raises RangeError
MaxDepth == 3
\* execute calls the host makes on one interpreter
MaxRuns == 2

-----------------------------------------------------------------------------
(* Values (parser/types.ts, interpreter/types.ts): tagged records *)

Undefined == [type |-> "undefined"]
Nothing == [type |-> "NothingLiteral"]
Num(n) == [type |-> "NumberLiteral", value |-> <<n, 1>>]
Text(s) == [type |-> "TextLiteral", value |-> s]
Bool(b) == [type |-> "BooleanLiteral", value |-> b]
Vec2(x, y) == [type |-> "Vector2Literal", x |-> x, y |-> y]
Vec3(x, y, z) == [type |-> "Vector3Literal", x |-> x, y |-> y, z |-> z]
Param(id, t) == [identifier |-> id, dataType |-> t]
Block(stmts) == [type |-> "CodeBlock", body |-> stmts]
Func(params, stmts) ==
    [type |-> "FuncDeclaration", parameters |-> params, body |-> Block(stmts)]
InternalFunc(id, params) ==
    [type |-> "InternalFuncDeclaration", identifier |-> id, parameters |-> params]

(* Expression nodes *)
Expr(body) == [type |-> "Expression", body |-> body]
Id(name) == [type |-> "Identifier", value |-> name]
Call(id, args) == [type |-> "FuncCallNode", identifier |-> id, args |-> args]
Bin(left, op, right) ==
    [type |-> "BinaryExpression", left |-> left, operator |-> op, right |-> right]
Accessor(e, v) == [type |-> "AccessorExpression", expression |-> e, value |-> v]

(* Statement nodes *)
Stmt(body) == [body |-> body]
NoType == [present |-> FALSE, value |-> "", internalType |-> ""]
Typed(t) == [present |-> TRUE, value |-> t, internalType |-> ""]
OptionalType(t) == [present |-> TRUE, value |-> "optional", internalType |-> t]
Declaration(kind, id, dataType, isOptional, e) ==
    [type |-> "Declaration", declaratorType |-> kind, identifier |-> id,
     dataType |-> dataType, isOptional |-> isOptional, expression |-> e]
Assignment(id, e) == [type |-> "Assignment", identifier |-> id, expression |-> e]
ReturnStatement(e) == [type |-> "ReturnStatement", value |-> e]
IfStatement(c, t, hasFalse, f) ==
    [type |-> "IfStatement", condition |-> c, trueExpression |-> Block(t),
     hasFalse |-> hasFalse, falseExpression |-> Block(f)]
ImportStatement(path) == [type |-> "ImportStatement", value |-> path]

-----------------------------------------------------------------------------
(* Numbers.  A NumberLiteral's value is a JavaScript double; the model     *)
(* keeps it as a reduced fraction <<n, d>> with d > 0, and <<1, 0>>,       *)
(* <<-1, 0>>, <<0, 0>> for Infinity, -Infinity and NaN.                    *)

Abs(n) == IF n < 0 THEN -n ELSE n
Sign(n) == IF n < 0 THEN -1 ELSE IF n > 0 THEN 1 ELSE 0

RECURSIVE Gcd(_, _)
Gcd(a, b) == IF b = 0 THEN a ELSE Gcd(b, a % b)

Norm(n, d) ==
    IF d = 0 THEN <<Sign(n), 0>>
    ELSE LET g == Gcd(Abs(n), Abs(d))
         IN <<Sign(d) * (n \div g), Abs(d) \div g>>

IsNaN(a) == a[2] = 0 /\ a[1] = 0
IsInf(a) == a[2] = 0 /\ a[1] # 0
NaN == <<0, 0>>

NumAdd(a, b) ==
    IF IsNaN(a) \/ IsNaN(b) THEN NaN
    ELSE IF IsInf(a) THEN (IF IsInf(b) /\ b[1] # a[1] THEN NaN ELSE a)
    ELSE IF IsInf(b) THEN b
    ELSE Norm(a[1] * b[2] + b[1] * a[2], a[2] * b[2])

NumNeg(a) == <<-a[1], a[2]>>
NumSub(a, b) == NumAdd(a, NumNeg(b))

NumMul(a, b) ==
    IF IsNaN(a) \/ IsNaN(b) THEN NaN
    ELSE IF IsInf(a) \/ IsInf(b) THEN <<Sign(a[1]) * Sign(b[1]), 0>>
    ELSE Norm(a[1] * b[1], a[2] * b[2])

NumDiv(a, b) ==
    IF IsNaN(a) \/ IsNaN(b) THEN NaN
    ELSE IF IsInf(a) THEN (IF IsInf(b) THEN NaN
                           ELSE <<a[1] * (IF b[1] < 0 THEN -1 ELSE 1), 0>>)
    ELSE IF IsInf(b) THEN <<0, 1>>
    ELSE Norm(a[1] * b[2], a[2] * b[1])

\* the remainder keeps the sign of the dividend (truncated division)
NumMod(a, b) ==
    IF IsNaN(a) \/ IsNaN(b) \/ IsInf(a) \/ b[1] = 0 THEN NaN
    ELSE IF IsInf(b) THEN a
    ELSE LET x == Abs(a[1]) * b[2]
             y == Abs(b[1]) * a[2]
         IN Norm(Sign(a[1]) * (x % y), a[2] * b[2])

NumEq(a, b) == ~IsNaN(a) /\ ~IsNaN(b) /\ a = b
NumLt(a, b) ==
    /\ ~IsNaN(a) /\ ~IsNaN(b)
    /\ IF a[2] = 0 \/ b[2] = 0
       THEN (IF a[2] = 0 THEN a[1] ELSE 0) < (IF b[2] = 0 THEN b[1] ELSE 0)
            \/ (a[2] = 0 /\ b[2] = 0 /\ a[1] < b[1])
       ELSE a[1] * b[2] < b[1] * a[2]
NumLe(a, b) == NumLt(a, b) \/ NumEq(a, b)

-----------------------------------------------------------------------------
(* DataTypeUtils (utils/dataTypes/dataTypeUtils.ts) *)

\* valueToDataType: the declared type name of a value tag
valueToDataType(kind) ==
    CASE kind = "NumberLiteral" -> "number"
      [] kind = "TextLiteral" -> "text"
      [] kind = "BooleanLiteral" -> "boolean"
      [] kind = "NothingLiteral" -> "nothing"
      [] kind = "Vector2Literal" -> "vector2"
      [] kind = "Vector3Literal" -> "vector3"
      [] kind = "FuncDeclaration" -> "func"
      [] kind = "InternalFuncDeclaration" -> "internalFunc"
      [] OTHER -> "unknown"

NumberText(a) ==
    IF IsNaN(a) THEN "NaN"
    ELSE IF IsInf(a) THEN (IF a[1] > 0 THEN "Infinity" ELSE "-Infinity")
    ELSE IF a[2] = 1 THEN ToString(a[1])
    ELSE ToString(a[1]) \o "/" \o ToString(a[2])

\* convertValueToText: the TextLiteral printed for a value
convertValueToText(v) ==
    CASE v.type = "TextLiteral" -> v
      [] v.type = "NumberLiteral" -> Text(NumberText(v.value))
      [] v.type = "BooleanLiteral" -> Text(IF v.value THEN "true" ELSE "false")
      [] v.type = "NothingLiteral" -> Text("nothing")
      [] OTHER -> Text(valueToDataType(v.type))

-----------------------------------------------------------------------------
(* Exceptions (exception/RuntimeException.ts, ControlFlowException.ts) *)

NoException == [kind |-> "none", name |-> "", data |-> Undefined]
RuntimeException(name) ==
    [kind |-> "RuntimeException", name |-> name, data |-> Undefined]
ControlFlowException(type, data) ==
    [kind |-> "ControlFlowException", name |-> type, data |-> data]
\* a plain JavaScript Error (internal errors, RangeError of the call stack)
Error(name) == [kind |-> "Error", name |-> name, data |-> Undefined]

\* the outcome of a call: the interpreter's state after it, what it threw
\* (NoException when it returned) and what it returned
Ok(st, val) == [st |-> st, exc |-> NoException, val |-> val]
Throw(st, exc) == [st |-> st, exc |-> exc, val |-> Undefined]
Threw(r) == r.exc.kind # "none"

-----------------------------------------------------------------------------
(* Memory (interpreter/memory.ts): a stack of scopes, a scope maps an      *)
(* identifier to its cell                                                  *)

EmptyScope == <<>>
Cell(declarationType, id, type, value, internalType) ==
    [declarationType |-> declarationType, identifier |-> id, type |-> type,
     value |-> value, internalType |-> internalType]
NoCell == Cell("none", "", "none", Undefined, "null")

\* the standard library's routines, found by name (stdLibrary/standardLibrary.ts)
StandardLibrary ==
    "quackprint" :> Cell("constant", "quackprint", "internalFunc",
                         InternalFunc("quackprint", <<Param("value", "text")>>), "null")

\* clearMemory: a single empty global scope
clearMemory == <<EmptyScope>>
createScope(mem) == Append(mem, EmptyScope)
clearScope(mem) == SubSeq(mem, 1, Len(mem) - 1)

\* index of the innermost scope that holds id, 0 when none does
RECURSIVE ScopeOf(_, _, _)
ScopeOf(mem, id, i) ==
    IF i = 0 THEN 0
    ELSE IF id \in DOMAIN mem[i] THEN i
    ELSE ScopeOf(mem, id, i - 1)

\* get: innermost scope first, then the standard library
MemoryGet(mem, id) ==
    LET i == ScopeOf(mem, id, Len(mem))
    IN IF i > 0 THEN [found |-> TRUE, cell |-> mem[i][id]]
       ELSE IF id \in DOMAIN StandardLibrary
            THEN [found |-> TRUE, cell |-> StandardLibrary[id]]
       ELSE [found |-> FALSE, cell |-> NoCell]

\* set: a new cell in the innermost scope
MemorySet(st, id, cell) ==
    LET top == Len(st.memory)
    IN IF id \in DOMAIN st.memory[top]
       THEN Throw(st, RuntimeException("RedeclarationError"))
       ELSE Ok([st EXCEPT !.memory[top] = @ @@ (id :> cell)], Undefined)

\* update: a new value for an existing cell
MemoryUpdate(st, id, value) ==
    LET i == ScopeOf(st.memory, id, Len(st.memory))
    IN IF i = 0 THEN Throw(st, RuntimeException("UndefinedIdentifier"))
       ELSE IF st.memory[i][id].declarationType = "constant"
            THEN Throw(st, RuntimeException("AssignToConstant"))
       ELSE Ok([st EXCEPT !.memory[i][id].value = value], Undefined)

(* State (interpreter/state.ts): a stack of context tags *)
StatePush(stack, ctx) == Append(stack, ctx)
StatePop(stack) == SubSeq(stack, 1, Len(stack) - 1)

(* System (system.ts): the host's three callables *)
Emit(st, by, text) == [st EXCEPT !.stdout = Append(@, [by |-> by, text |-> text])]
EmitError(st, text) == [st EXCEPT !.stderr = Append(@, text)]

-----------------------------------------------------------------------------
(* The host's file system: what loadFile, then the lexer and the parser,   *)
(* make of a path.                                                         *)

\* QUACK f <- (:a: number:) :> {: if a == 1 {: return 'one' :}  return a + 1 :}
FuncF ==
    Func(<<Param("a", "number")>>,
         <<Stmt(IfStatement(Expr(Bin(Id("a"), "==", Expr(Num(1)))),
                            <<Stmt(ReturnStatement(Expr(Text("one"))))>>, FALSE, <<>>)),
           Stmt(ReturnStatement(Expr(Bin(Id("a"), "+", Expr(Num(1))))))>>)
\* QUACK g <- (::) :> {: quack t <- 1 :}
FuncG == Func(<<>>, <<Stmt(Declaration("variable", "t", NoType, FALSE, Expr(Num(1))))>>)
\* QUACK h <- (:b: number:) :> {: QUACK r <- f(:b:)  g(::)  return r :}
FuncH ==
    Func(<<Param("b", "number")>>,
         <<Stmt(Declaration("constant", "r", NoType, FALSE,
                            Expr(Call("f", <<Expr(Id("b"))>>)))),
           Stmt(Expr(Call("g", <<>>))),
           Stmt(ReturnStatement(Expr(Id("r"))))>>)
\* QUACK k <- (::) :> {: f(:'x':) :}
FuncK == Func(<<>>, <<Stmt(Expr(Call("f", <<Expr(Text("x"))>>)))>>)

\* QUACK two <- (:a: number, b: number:) :> {: quackprint(:'two':)  return a - b :}
FuncTwo ==
    Func(<<Param("a", "number"), Param("b", "number")>>,
         <<Stmt(Expr(Call("quackprint", <<Expr(Text("two"))>>))),
           Stmt(ReturnStatement(Expr(Bin(Id("a"), "-", Expr(Id("b"))))))>>)

\* top imports lib; loop imports itself; ping and pong import each other
Files ==
    [lib |-> <<Stmt(Declaration("constant", "f", NoType, FALSE, Expr(FuncF))),
               Stmt(Declaration("constant", "g", NoType, FALSE, Expr(FuncG))),
               Stmt(Declaration("constant", "h", NoType, FALSE, Expr(FuncH))),
               Stmt(Declaration("constant", "k", NoType, FALSE, Expr(FuncK))),
               Stmt(Expr(Text("lib")))>>,
     bad |-> <<Stmt(Expr(Text("bad"))), Stmt(Expr(Id("missing")))>>,
     top |-> <<Stmt(ImportStatement("lib")),
               Stmt(Declaration("constant", "two", NoType, FALSE, Expr(FuncTwo))),
               Stmt(Expr(Text("top")))>>,
     loop |-> <<Stmt(ImportStatement("loop")), Stmt(Expr(Text("loop")))>>,
     ping |-> <<Stmt(ImportStatement("pong")), Stmt(Expr(Text("ping")))>>,
     pong |-> <<Stmt(ImportStatement("ping")), Stmt(Expr(Text("pong")))>>]

RECURSIVE Run(_, _, _, _)

IsLiteral(kind) ==
    kind \in {"FuncDeclaration", "TextLiteral", "BooleanLiteral", "NothingLiteral",
              "Vector2Literal", "Vector3Literal", "NumberLiteral"}

\* executeInternalFunc: the routine reads its arguments from the call's scope
executeInternalFunc(fn, st) ==
    IF fn.identifier = "quackprint"
    THEN LET v == MemoryGet(st.memory, "value").cell.value
         IN Ok(Emit(st, "executeInternalFunc", convertValueToText(v).value), Nothing)
    ELSE Ok(st, Nothing)

\* StaticPrimitiveAttributes.executeStaticFunction: no attribute is registered
executeStaticFunction(identifier, st, value) ==
    Throw(st, RuntimeException("UnknownAttribute"))

\* the both-boolean branch of executeBinaryExpression
BooleanBinary(st, op, l, r) ==
    CASE op = "!=" -> Ok(st, Bool(l # r))
      [] op = "&&" -> Ok(st, Bool(l /\ r))
      [] op = "==" -> Ok(st, Bool(l = r))
      [] op = "||" -> Ok(st, Bool(l \/ r))
      [] OTHER -> Throw(st, RuntimeException("InvalidBinaryExpression"))

\* a both-number branch that compares whatever the operator
NumberBinaryComparing(op, l, r) == Bool(NumEq(l, r))

\* the both-number branch: Undefined when the operator is none of the switch's
NumberBinary(op, l, r) ==
    CASE op = "!=" -> Bool(~NumEq(l, r))
      [] op = "%" -> [type |-> "NumberLiteral", value |-> NumMod(l, r)]
      [] op = "*" -> [type |-> "NumberLiteral", value |-> NumMul(l, r)]
      [] op = "-" -> [type |-> "NumberLiteral", value |-> NumSub(l, r)]
      [] op = "+" -> [type |-> "NumberLiteral", value |-> NumAdd(l, r)]
      [] op = "/" -> [type |-> "NumberLiteral", value |-> NumDiv(l, r)]
      [] op = "<" -> Bool(NumLt(l, r))
      [] op = "<=" -> Bool(NumLe(l, r))
      [] op = ">=" -> Bool(NumLe(r, l))
      [] op = "==" -> Bool(NumEq(l, r))
      [] op = ">" -> Bool(NumLt(r, l))
      [] OTHER -> Undefined

\* the both-text branch: Undefined when the operator is none of the switch's
TextBinary(op, l, r) ==
    CASE op = "!=" -> Bool(l # r)
      [] op = "==" -> Bool(l = r)
      [] op = "+" -> Text(l \o r)
      [] OTHER -> Undefined

\* a last test that answers every operator on operands of different kinds
CrossTypeAnyOperator(st, op, lt, rt) ==
    IF lt # rt
    THEN Ok(st, Bool(op = "!="))
    ELSE Throw(st, RuntimeException("InvalidBinaryExpression"))

\* the last test of executeBinaryExpression: && binds tighter than ||
CrossType(st, op, lt, rt) ==
    IF (lt # rt /\ op = "!=") \/ op = "=="
    THEN Ok(st, Bool(op = "!="))
    ELSE Throw(st, RuntimeException("InvalidBinaryExpression"))

\* the dispatch of executeBinaryExpression on the two unwrapped operands
BinaryDispatch(st, op, l, r) ==
    IF l.type = "BooleanLiteral" /\ r.type = "BooleanLiteral"
    THEN BooleanBinary(st, op, l.value, r.value)
    ELSE LET n == IF l.type = "NumberLiteral" /\ r.type = "NumberLiteral"
                  THEN NumberBinary(op, l.value, r.value) ELSE Undefined
             t == IF l.type = "TextLiteral" /\ r.type = "TextLiteral"
                  THEN TextBinary(op, l.value, r.value) ELSE Undefined
         IN IF n.type # "undefined" THEN Ok(st, n)
            ELSE IF t.type # "undefined" THEN Ok(st, t)
            ELSE CrossType(st, op, l.type, r.type)

executeBinaryExpression(node, st, d) ==
    LET r == Run("executeExpressionNode", node.right, st, d)
    IN IF Threw(r) THEN r
       ELSE IF r.val.type \in {"FuncDeclaration", "InternalFuncDeclaration"}
       THEN Throw(r.st, RuntimeException("InvalidBinaryOperand"))
       ELSE IF node.left.type = "Identifier"
       THEN LET m == MemoryGet(r.st.memory, node.left.value)
            IN IF ~m.found THEN Throw(r.st, RuntimeException("UndefinedIdentifier"))
               ELSE IF m.cell.type \in {"func", "internalFunc"}
               THEN Throw(r.st, RuntimeException("InvalidBinaryOperand"))
               ELSE BinaryDispatch(r.st, node.operator, m.cell.value, r.val)
       ELSE BinaryDispatch(r.st, node.operator, node.left, r.val)

executeAccessorExpression(node, st, d) ==
    LET e == Run("executeExpressionNode", node.expression, st, d)
    IN IF Threw(e) THEN e
       ELSE IF node.value.type = "FuncCallNode"
       THEN executeStaticFunction(node.value.identifier, e.st, e.val)
       ELSE Throw(e.st, RuntimeException("UnknownAttribute"))

executeExpressionNode(node, st, d) ==
    CASE IsLiteral(node.body.type) -> Ok(st, node.body)
      [] node.body.type = "FuncCallNode" -> Run("executeFunctionCall", node.body, st, d)
      [] node.body.type = "Identifier" ->
            LET m == MemoryGet(st.memory, node.body.value)
            IN IF m.found THEN Ok(st, m.cell.value)
               ELSE Throw(st, RuntimeException("UndefinedIdentifier"))
      [] node.body.type = "BinaryExpression" -> Run("executeBinaryExpression", node.body, st, d)
      [] node.body.type = "AccessorExpression" ->
            Run("executeAccessorExpression", node.body, st, d)

-----------------------------------------------------------------------------
(* Function calls *)

\* a forEach that binds every argument without a look at its kind
bindParamsUnchecked(params, args, i, st, d) ==
    IF i > Len(params) THEN Ok(st, Undefined)
    ELSE LET a == Run("executeExpressionNode", args[i], st, d)
         IN IF Threw(a) THEN a
            ELSE LET s == MemorySet(a.st, params[i].identifier,
                                    Cell("argument", params[i].identifier,
                                         params[i].dataType, a.val, "null"))
                 IN IF Threw(s) THEN s
                    ELSE Run("bindParams", [params |-> params, args |-> args, i |-> i + 1], s.st, d)

\* the forEach over the parameters: argument i is evaluated, checked and bound
bindParams(params, args, i, st, d) ==
    IF i > Len(params) THEN Ok(st, Undefined)
    ELSE LET a == Run("executeExpressionNode", args[i], st, d)
         IN IF Threw(a) THEN a
            ELSE IF valueToDataType(a.val.type) # params[i].dataType
            THEN Throw(a.st, RuntimeException("ArgumentTypeMismatch"))
            ELSE LET s == MemorySet(a.st, params[i].identifier,
                                    Cell("argument", params[i].identifier,
                                         params[i].dataType, a.val, "null"))
                 IN IF Threw(s) THEN s
                    ELSE Run("bindParams", [params |-> params, args |-> args, i |-> i + 1], s.st, d)

\* a call's end that forgets to pop the scope
LeaveKeepingScope(st) == [st EXCEPT !.state = StatePop(@)]

\* the end of executeFunctionCall: clearScope, then the State's pop
Leave(st) == [st EXCEPT !.memory = clearScope(@), !.state = StatePop(@)]

Exit(r, how) == [st |-> r.st, exc |-> r.exc, val |-> r.val, how |-> how]

\* executeFunctionCall from the push of the frame and the scope on
CallBody(cell, node, st, d) ==
    LET fn == cell.value
        pushed == [st EXCEPT !.state = StatePush(@, "function"),
                             !.memory = createScope(@)]
    IN IF Len(fn.parameters) # Len(node.args)
       THEN Exit(Throw(pushed, RuntimeException("ArityMismatch")), "throw")
       ELSE LET b == Run("bindParams", [params |-> fn.parameters, args |-> node.args, i |-> 1], pushed, d)
            IN IF Threw(b) THEN Exit(b, "throw")
               ELSE LET body == IF cell.type = "internalFunc"
                                THEN executeInternalFunc(fn, b.st)
                                ELSE Run("executeCodeBlockFrom", [body |-> fn.body.body, i |-> 1], b.st, d)
                        caught == cell.type # "internalFunc"
                                  /\ body.exc.kind = "ControlFlowException"
                                  /\ body.exc.name = "Return"
                        returnedValue ==
                            IF caught THEN body.exc.data
                            ELSE IF cell.type = "internalFunc" THEN body.val
                            ELSE Nothing
                    IN IF Threw(body) /\ ~caught THEN Exit(body, "throw")
                       ELSE Exit(Ok(Leave(body.st), returnedValue),
                                 IF caught THEN "Return" ELSE "normal")

\* executeFunctionCall, less the record of the call
FunctionCall(node, st, d) ==
    LET m == MemoryGet(st.memory, node.identifier)
    IN IF ~m.found
       THEN Exit(Throw(st, RuntimeException("UndefinedIdentifier")), "throw")
       ELSE IF m.cell.type \notin {"func", "internalFunc"}
       THEN Exit(Throw(st, RuntimeException("NotCallable")), "throw")
       ELSE IF m.cell.value.type = "NothingLiteral"
       THEN Exit(Throw(st, RuntimeException("CallOnNothing")), "throw")
       ELSE IF d >= MaxDepth
       THEN Exit(Throw(st, Error("RangeError")), "throw")
       ELSE CallBody(m.cell, node, st, d + 1)

\* what the call found and left: depths of the scope stack and of the State stack
CallRecord(node, st, r) ==
    [identifier |-> node.identifier, exit |-> r.how, threw |-> r.exc.name,
     scopesBefore |-> Len(st.memory), scopesAfter |-> Len(r.st.memory),
     framesBefore |-> Len(st.state), framesAfter |-> Len(r.st.state),
     emitted |-> Len(r.st.stdout) - Len(st.stdout)]

executeFunctionCall(node, st, d) ==
    LET r == FunctionCall(node, st, d)
    IN [st |-> [r.st EXCEPT !.calls = Append(@, CallRecord(node, st, r))],
        exc |-> r.exc, val |-> r.val]

-----------------------------------------------------------------------------
(* Statements *)

executeDeclaration(node, st, d) ==
    LET v == Run("executeExpressionNode", node.expression, st, d)
    IN IF Threw(v) THEN v
       ELSE LET declared == IF node.dataType.present THEN node.dataType.value
                            ELSE valueToDataType(v.val.type)
                inner == IF node.dataType.present /\ node.dataType.internalType # ""
                         THEN node.dataType.internalType ELSE declared
            IN IF node.isOptional
               THEN MemorySet(v.st, node.identifier,
                              Cell(node.declaratorType, node.identifier, "optional",
                                   v.val, inner))
               ELSE MemorySet(v.st, node.identifier,
                              Cell(node.declaratorType, node.identifier, declared,
                                   v.val, "null"))

executeAssignment(node, st, d) ==
    IF node.expression.type # "Expression"
    THEN Throw(st, Error("InternalAssignmentError"))
    ELSE LET v == Run("executeExpressionNode", node.expression, st, d)
         IN IF Threw(v) THEN v ELSE MemoryUpdate(v.st, node.identifier, v.val)

\* executeCodeBlock from statement i of the block on
executeCodeBlockFrom(body, i, st, d) ==
    IF i > Len(body) THEN Ok(st, Undefined)
    ELSE LET outcome == Run("executeStatement", body[i], st, d)
         IN IF Threw(outcome) THEN outcome
            ELSE IF body[i].body.type = "ReturnStatement"
            THEN Throw(outcome.st, ControlFlowException("Return", outcome.val))
            ELSE Run("executeCodeBlockFrom", [body |-> body, i |-> i + 1], outcome.st, d)

\* an if-statement that takes every value but false and nothing for true
executeIfStatementNodeTruthy(node, st, d) ==
    LET c == Run("executeExpressionNode", node.condition, st, d)
    IN IF Threw(c) THEN c
       ELSE IF ~(c.val.type = "NothingLiteral"
                 \/ (c.val.type = "BooleanLiteral" /\ ~c.val.value))
       THEN Run("executeCodeBlockFrom", [body |-> node.trueExpression.body, i |-> 1], c.st, d)
       ELSE IF node.hasFalse
       THEN Run("executeCodeBlockFrom", [body |-> node.falseExpression.body, i |-> 1], c.st, d)
       ELSE Ok(c.st, Undefined)

\* an if-statement that keeps a Return raised in its block to itself
executeIfStatementNodeSwallowing(node, st, d) ==
    LET c == Run("executeExpressionNode", node.condition, st, d)
        b == IF c.val.type = "BooleanLiteral" /\ c.val.value
             THEN Run("executeCodeBlockFrom", [body |-> node.trueExpression.body, i |-> 1], c.st, d)
             ELSE IF node.hasFalse
             THEN Run("executeCodeBlockFrom", [body |-> node.falseExpression.body, i |-> 1], c.st, d)
             ELSE Ok(c.st, Undefined)
    IN IF Threw(c) THEN c
       ELSE IF c.val.type \in {"FuncDeclaration", "InternalFuncDeclaration",
                               "NumberLiteral", "TextLiteral", "Vector2Literal",
                               "Vector3Literal"}
       THEN Throw(c.st, RuntimeException("NonBooleanCondition"))
       ELSE IF b.exc.kind = "ControlFlowException" THEN Ok(b.st, Undefined)
       ELSE b

executeIfStatementNode(node, st, d) ==
    LET c == Run("executeExpressionNode", node.condition, st, d)
    IN IF Threw(c) THEN c
       ELSE IF c.val.type \in {"FuncDeclaration", "InternalFuncDeclaration",
                               "NumberLiteral", "TextLiteral", "Vector2Literal",
                               "Vector3Literal"}
       THEN Throw(c.st, RuntimeException("NonBooleanCondition"))
       ELSE IF c.val.type = "BooleanLiteral" /\ c.val.value
       THEN Run("executeCodeBlockFrom", [body |-> node.trueExpression.body, i |-> 1], c.st, d)
       ELSE IF node.hasFalse
       THEN Run("executeCodeBlockFrom", [body |-> node.falseExpression.body, i |-> 1], c.st, d)
       ELSE Ok(c.st, Undefined)

\* a dispatch that imports wherever the import statement stands
executeStatementImporting(statement, st, d) ==
    CASE statement.body.type = "Declaration" -> Run("executeDeclaration", statement.body, st, d)
      [] statement.body.type = "Assignment" -> Run("executeAssignment", statement.body, st, d)
      [] statement.body.type = "Expression" -> Run("executeExpressionNode", statement.body, st, d)
      [] statement.body.type = "ReturnStatement" ->
            Run("executeExpressionNode", statement.body.value, st, d)
      [] statement.body.type = "IfStatement" ->
            Run("executeIfStatementNode", statement.body, st, d)
      [] statement.body.type = "ImportStatement" ->
            Run("executeImportNode", statement.body, st, d)

executeStatement(statement, st, d) ==
    CASE statement.body.type = "Declaration" -> Run("executeDeclaration", statement.body, st, d)
      [] statement.body.type = "Assignment" -> Run("executeAssignment", statement.body, st, d)
      [] statement.body.type = "Expression" -> Run("executeExpressionNode", statement.body, st, d)
      [] statement.body.type = "ReturnStatement" ->
            Run("executeExpressionNode", statement.body.value, st, d)
      [] statement.body.type = "IfStatement" ->
            Run("executeIfStatementNode", statement.body, st, d)
      [] statement.body.type = "ImportStatement" ->
            Throw(st, RuntimeException("ImportNotAtTop"))

-----------------------------------------------------------------------------
(* Modules *)

\* a test that lets NothingLiteral through
PrintedWithNothing(output) == output.type # "undefined"

\* the test executeModule makes of a statement's result before it prints it
Printed(output) == output.type # "undefined" /\ output.type # "NothingLiteral"

\* the loop of executeModule over statementsToExecute, from statement i on
executeStatementsFrom(statements, i, st, d) ==
    IF i > Len(statements) THEN Ok(st, Undefined)
    ELSE LET output == Run("executeStatement", statements[i], st, d)
         IN IF Threw(output) THEN output
            ELSE Run("executeStatementsFrom",
                     [statements |-> statements, i |-> i + 1],
                     IF Printed(output.val)
                     THEN Emit(output.st, "executeModule",
                               convertValueToText(output.val).value)
                     ELSE output.st,
                     d)

\* an import that runs the imported module in a scope of its own
executeImportNodeScoped(importNode, st, d) ==
    LET asked == [st EXCEPT !.loaded = Append(@, importNode.value),
                            !.memory = createScope(@)]
    IN IF importNode.value \notin DOMAIN Files
       THEN Throw(asked, RuntimeException("ImportUnsupported"))
       ELSE IF d >= MaxDepth THEN Throw(asked, Error("RangeError"))
       ELSE LET r == Run("executeModule", Files[importNode.value], asked, d + 1)
            IN [st |-> [r.st EXCEPT !.memory = clearScope(@)], exc |-> r.exc,
                val |-> Undefined]

executeImportNode(importNode, st, d) ==
    LET asked == [st EXCEPT !.loaded = Append(@, importNode.value)]
    IN IF importNode.value \notin DOMAIN Files
       THEN Throw(asked, RuntimeException("ImportUnsupported"))
       ELSE IF d >= MaxDepth THEN Throw(asked, Error("RangeError"))
       ELSE LET r == Run("executeModule", Files[importNode.value], asked, d + 1)
            IN [st |-> r.st, exc |-> r.exc, val |-> Undefined]

\* executeAllTopImports from statement i on; val: the number of modules imported
executeAllTopImportsFrom(statements, i, st, d) ==
    IF i > Len(statements) \/ statements[i].body.type # "ImportStatement"
    THEN Ok(st, i - 1)
    ELSE LET r == Run("executeImportNode", statements[i].body, st, d)
         IN IF Threw(r) THEN r
            ELSE Run("executeAllTopImportsFrom", [statements |-> statements, i |-> i + 1], r.st, d)

\* statements: the module's statement list once the call has ended (splice
\* leaves the imported statements in it and removes the rest)
executeModule(statements, st, d) ==
    LET modulesImported == Run("executeAllTopImportsFrom", [statements |-> statements, i |-> 1], st, d)
    IN IF Threw(modulesImported)
       THEN [st |-> modulesImported.st, exc |-> modulesImported.exc,
             val |-> Undefined, statements |-> statements]
       ELSE LET importedModulesCounts == modulesImported.val
                statementsToExecute ==
                    SubSeq(statements, importedModulesCounts + 1, Len(statements))
                r == Run("executeStatementsFrom",
                         [statements |-> statementsToExecute, i |-> 1],
                         modulesImported.st, d)
            IN [st |-> r.st, exc |-> r.exc, val |-> Undefined,
                statements |-> SubSeq(statements, 1, importedModulesCounts)]

\* The walk is recursive through every operator above: Run names the callee
Run(callee, node, st, d) ==
    CASE callee = "executeModule" -> executeModule(node, st, d)
      [] callee = "executeStatementsFrom" ->
            executeStatementsFrom(node.statements, node.i, st, d)
      [] callee = "executeAllTopImportsFrom" ->
            executeAllTopImportsFrom(node.statements, node.i, st, d)
      [] callee = "executeImportNode" -> executeImportNode(node, st, d)
      [] callee = "executeCodeBlockFrom" -> executeCodeBlockFrom(node.body, node.i, st, d)
      [] callee = "executeStatement" -> executeStatement(node, st, d)
      [] callee = "executeIfStatementNode" -> executeIfStatementNode(node, st, d)
      [] callee = "executeDeclaration" -> executeDeclaration(node, st, d)
      [] callee = "executeAssignment" -> executeAssignment(node, st, d)
      [] callee = "executeFunctionCall" -> executeFunctionCall(node, st, d)
      [] callee = "bindParams" -> bindParams(node.params, node.args, node.i, st, d)
      [] callee = "executeExpressionNode" -> executeExpressionNode(node, st, d)
      [] callee = "executeAccessorExpression" -> executeAccessorExpression(node, st, d)
      [] callee = "executeBinaryExpression" -> executeBinaryExpression(node, st, d)

-----------------------------------------------------------------------------
(* The host: the modules it can parse, and its calls of execute *)

\* the top-level statements a source text is made of
Pool ==
    <<Stmt(ImportStatement("bad")),
      Stmt(Expr(Call("f", <<Expr(Num(1))>>))),
      Stmt(Expr(Call("g", <<>>))),
      Stmt(Expr(Call("h", <<Expr(Num(2))>>))),
      Stmt(Expr(Call("f", <<Expr(Call("k", <<>>))>>))),
      Stmt(Expr(Call("f", <<>>))),
      Stmt(Expr(Call("quackprint", <<Expr(Text("hi"))>>))),
      Stmt(ReturnStatement(Expr(Num(5)))),
      Stmt(IfStatement(Expr(Bool(TRUE)), <<Stmt(ReturnStatement(Expr(Num(1))))>>,
                       FALSE, <<>>)),
      Stmt(Declaration("constant", "x", Typed("number"), FALSE, Expr(Nothing))),
      Stmt(Declaration("constant", "f", Typed("text"), FALSE, Expr(Num(3)))),
      Stmt(Declaration("variable", "o", OptionalType("number"), TRUE, Expr(Nothing))),
      Stmt(Assignment("o", Expr(Num(2)))),
      Stmt(Assignment("o", Num(2)))>>

\* import 'lib' and the statement 'end', which a source text may begin and end with
ImportLib == Stmt(ImportStatement("lib"))
PrintEnd == Stmt(Expr(Text("end")))

Bodies == UNION {[1..n -> 1..Len(Pool)] : n \in 0..MaxLen}
ModuleOf(withLib, body, withEnd) ==
    (IF withLib THEN <<ImportLib>> ELSE <<>>)
    \o [i \in DOMAIN body |-> Pool[body[i]]]
    \o (IF withEnd THEN <<PrintEnd>> ELSE <<>>)

Init ==
    /\ \E withLib \in BOOLEAN, body \in Bodies, withEnd \in BOOLEAN :
           source = ModuleOf(withLib, body, withEnd)
    /\ tree = source
    /\ memory = clearMemory
    /\ state = <<>>
    /\ stdout = <<>>
    /\ stderr = <<>>
    /\ loaded = <<>>
    /\ calls = <<>>
    /\ history = <<>>

\* the host parses the source text again and holds a fresh ModuleNode
Parse ==
    /\ tree # source
    /\ tree' = source
    /\ UNCHANGED <<source, memory, state, stdout, stderr, loaded, calls, history>>

\* an execute that keeps the scopes and cells of the call before
ClearedKeepingMemory(frames) ==
    [memory |-> memory, state |-> frames, stdout |-> <<>>, stderr |-> <<>>,
     loaded |-> <<>>, calls |-> <<>>]

\* the interpreter as execute's clearMemory leaves it, with the host's sinks empty
Cleared(frames) ==
    [memory |-> clearMemory, state |-> frames, stdout |-> <<>>, stderr |-> <<>>,
     loaded |-> <<>>, calls |-> <<>>]

\* a catch that reports and swallows whatever was thrown
CaughtAny(exc) == exc.kind # "none"

\* the catch of execute: only a RuntimeException goes to stderr, the rest is
\* thrown again
Caught(exc) == exc.kind = "RuntimeException"

\* execute(tree): one call, from clearMemory to its return or its throw
Execute ==
    /\ Len(history) < MaxRuns
    /\ \E r \in {Run("executeModule", tree, Cleared(state), 0)} :
       LET caught == Caught(r.exc)
           st == IF caught THEN EmitError(r.st, r.exc.name) ELSE r.st
       IN /\ tree' = r.statements
          /\ memory' = st.memory
          /\ state' = st.state
          /\ stdout' = st.stdout
          /\ stderr' = st.stderr
          /\ loaded' = st.loaded
          /\ calls' = st.calls
          /\ history' = Append(history,
                 [statements |-> tree,
                  after |-> r.statements,
                  frames |-> state,
                  outcome |-> IF Threw(r) /\ ~caught THEN "raised" ELSE "returned",
                  exc |-> r.exc,
                  thrown |-> IF caught THEN NoException ELSE r.exc,
                  stdout |-> st.stdout])
    /\ UNCHANGED source

Next == Parse \/ Execute

Spec == Init /\ [][Next]_vars

-----------------------------------------------------------------------------
(* A second host, whose source texts are one construct each: a binary      *)
(* expression over every pair of operands, an if-statement over every kind *)
(* of condition, a call or a declaration after leading imports.            *)

Operators == {"+", "-", "*", "/", "%", "==", "!=", "<", "<=", ">", ">=", "&&", "||"}
Operands ==
    <<Num(0), Num(1), Num(-3), Text("a"), Text("b"), Bool(TRUE), Bool(FALSE),
      Nothing, Vec2(0, 0), Vec2(1, 0), Vec3(0, 0, 0)>>

\* QUACK l <- left   QUACK r <- left op right, the left operand written as
\* a literal or as the identifier l
BinaryModule(l, viaId, op, r) ==
    <<Stmt(Declaration("constant", "l", NoType, FALSE, Expr(Operands[l]))),
      Stmt(Declaration("constant", "r", NoType, FALSE,
                       Expr(Bin(IF viaId THEN Id("l") ELSE Operands[l], op,
                                Expr(Operands[r])))))>>

\* the conditions of an if-statement: every operand, a comparison, a
\* function literal and a standard-library routine
Conditions ==
    [i \in DOMAIN Operands |-> Expr(Operands[i])]
    \o <<Expr(Bin(Num(1), "<", Expr(Num(0)))), Expr(Bin(Num(0), "<", Expr(Num(1)))),
         Expr(FuncG), Expr(Id("quackprint"))>>

\* if c {: QUACK t <- 1 :} else {: QUACK e <- 2 :}   'end'
IfModule(c, hasFalse) ==
    <<Stmt(IfStatement(Conditions[c],
                       <<Stmt(Declaration("constant", "t", NoType, FALSE, Expr(Num(1))))>>,
                       hasFalse,
                       <<Stmt(Declaration("constant", "e", NoType, FALSE, Expr(Num(2))))>>)),
      PrintEnd>>

\* the leading imports of a source text
ImportLists == <<<<"top">>, <<"lib">>, <<"loop">>, <<"ping">>, <<"lib", "top">>, <<>>>>
\* the statement that follows them
Cases ==
    <<Stmt(Expr(Call("two", <<Expr(Num(1))>>))),
      Stmt(Expr(Call("f", <<Expr(Call("k", <<>>)), Expr(Num(1))>>))),
      Stmt(Expr(Call("two", <<Expr(Text("x")), Expr(Call("g", <<>>))>>))),
      Stmt(Expr(Call("two", <<Expr(Num(1)), Expr(Text("x"))>>))),
      Stmt(Expr(Call("two", <<Expr(Num(1)), Expr(Num(2))>>))),
      Stmt(Expr(Call("two", <<Expr(Call("g", <<>>)), Expr(Num(1))>>))),
      Stmt(Expr(Call("two", <<Expr(Call("two", <<Expr(Num(3)), Expr(Num(1))>>)),
                              Expr(Text("x"))>>))),
      Stmt(Expr(Call("quackprint", <<Expr(Num(1))>>))),
      Stmt(Expr(Call("quackprint", <<>>))),
      Stmt(Expr(Call("quackprint", <<Expr(Text("hi"))>>))),
      Stmt(Declaration("constant", "f", NoType, FALSE, Expr(Num(3)))),
      Stmt(Declaration("constant", "two", NoType, FALSE, Expr(Num(1)))),
      Stmt(Expr(Call("f", <<Expr(Num(1))>>))),
      Stmt(Expr(Call("h", <<Expr(Num(2))>>))),
      PrintEnd>>

ImportModule(p, c) ==
    [i \in DOMAIN ImportLists[p] |-> Stmt(ImportStatement(ImportLists[p][i]))]
    \o <<Cases[c]>>

\* the values the caller's a and b hold when it calls two(:b, a:)
CallerValues == <<Num(1), Num(5), Text("x")>>
\* import 'top'   QUACK a <- x   QUACK b <- y   two(:b, a:)
SwapModule(x, y) ==
    <<Stmt(ImportStatement("top")),
      Stmt(Declaration("constant", "a", NoType, FALSE, Expr(CallerValues[x]))),
      Stmt(Declaration("constant", "b", NoType, FALSE, Expr(CallerValues[y]))),
      Stmt(Expr(Call("two", <<Expr(Id("b")), Expr(Id("a"))>>)))>>

InitCases ==
    /\ \/ \E l \in DOMAIN Operands, viaId \in BOOLEAN, op \in Operators,
              r \in DOMAIN Operands : source = BinaryModule(l, viaId, op, r)
       \/ \E c \in DOMAIN Conditions, hasFalse \in BOOLEAN :
              source = IfModule(c, hasFalse)
       \/ \E p \in DOMAIN ImportLists, c \in DOMAIN Cases :
              source = ImportModule(p, c)
       \/ \E x \in DOMAIN CallerValues, y \in DOMAIN CallerValues :
              source = SwapModule(x, y)
    /\ tree = source
    /\ memory = clearMemory
    /\ state = <<>>
    /\ stdout = <<>>
    /\ stderr = <<>>
    /\ loaded = <<>>
    /\ calls = <<>>
    /\ history = <<>>

SpecCases == InitCases /\ [][Next]_vars

-----------------------------------------------------------------------------
(* The claims *)

Ran == history # <<>>
Last == history[Len(history)]
\* the module the latest execute call was given
Given == Last.statements
HasStatement(statements, s) == \E j \in DOMAIN statements : statements[j] = s
CallOf(id, args) == Stmt(Expr(Call(id, args)))

\* C1: every function call leaves the scope stack as deep as it found it, on
\* every exit path (normal completion, Return, propagated error)
C1_ScopeDepthRestored ==
    \A i \in DOMAIN calls : calls[i].scopesAfter = calls[i].scopesBefore

\* C2: every function call leaves the State stack as deep as it found it on
\* every exit path, so the State stack is empty whenever execute has ended
C2_StateFramePopped ==
    /\ \A i \in DOMAIN calls : calls[i].framesAfter = calls[i].framesBefore
    /\ Ran => state = <<>>

\* C3: when execute returns and the module raised no runtime error, Memory
\* holds exactly one scope
C3_OneScopeAfterCleanRun ==
    (Ran /\ Last.outcome = "returned" /\ Last.exc.kind = "none") => Len(memory) = 1

\* a clean run with a call nested in a call, a Return from inside an if-block
\* and a call that reaches no return
C3_Witness ==
    /\ Ran /\ Last.outcome = "returned" /\ Last.exc.kind = "none"
    /\ \E i, j, k \in DOMAIN calls :
          /\ calls[i].identifier = "f" /\ calls[i].exit = "Return"
          /\ calls[i].scopesBefore = 2
          /\ calls[j].identifier = "g" /\ calls[j].exit = "normal"
          /\ calls[k].identifier = "h" /\ calls[k].exit = "Return"
    /\ HasStatement(Given, CallOf("f", <<Expr(Num(1))>>))
    /\ Len(memory) = 1

\* C4: no call of execute ends with a Return signal propagating out of it
C4_ReturnNeverEscapes ==
    \A i \in DOMAIN history : history[i].thrown.kind # "ControlFlowException"

\* what executeModule does with these statements on a just cleared interpreter
RunOf(statements, frames) == executeModule(statements, Cleared(frames), 0)
Prefix(statements, j) == SubSeq(statements, 1, j)
\* the statements before statement j all ran without a throw
Reached(statements, j, frames) == ~Threw(RunOf(Prefix(statements, j - 1), frames))
IsKind(statements, j, kind) == statements[j].body.type = kind
\* index of the first statement of that kind, 0 when there is none
FirstOfKind(statements, kind) ==
    IF \E j \in DOMAIN statements : IsKind(statements, j, kind)
    THEN CHOOSE j \in DOMAIN statements :
             /\ IsKind(statements, j, kind)
             /\ \A k \in 1..(j - 1) : ~IsKind(statements, k, kind)
    ELSE 0
\* length of the leading run of import statements
LeadingImports(statements) ==
    CHOOSE n \in 0..Len(statements) :
        /\ \A k \in 1..n : IsKind(statements, k, "ImportStatement")
        /\ n < Len(statements) => ~IsKind(statements, n + 1, "ImportStatement")
\* index of the statement whose execution threw, 0 when none did
FirstFailing(statements, frames) ==
    IF Threw(RunOf(statements, frames))
    THEN CHOOSE j \in DOMAIN statements :
             /\ Threw(RunOf(Prefix(statements, j), frames))
             /\ Reached(statements, j, frames)
    ELSE 0
OnlyDeclarations(statements) ==
    \A j \in DOMAIN statements : IsKind(statements, j, "Declaration")
GlobalCells == {memory[1][id] : id \in DOMAIN memory[1]}

\* C5: a ReturnStatement reached at the top level of a module is rejected
\* with ReturnOutsideFunction, its value is not printed and the module halts
C5_TopLevelReturnRejected ==
    Ran => LET j == FirstOfKind(Given, "ReturnStatement")
           IN (j > 0 /\ Reached(Given, j, Last.frames)) =>
                 /\ Last.outcome = "returned"
                 /\ stderr = <<"ReturnOutsideFunction">>
                 /\ stdout = RunOf(Prefix(Given, j - 1), Last.frames).st.stdout

\* C6: after a module of Declarations, no cell of a non-optional Declaration
\* holds NothingLiteral, and the first non-optional Declaration of nothing is
\* reported as NullToNonOptional
C6_NonOptionalNeverNothing ==
    (Ran /\ OnlyDeclarations(Given)) =>
        /\ \A c \in GlobalCells : c.type # "optional" => c.value.type # "NothingLiteral"
        /\ \A j \in DOMAIN Given :
              (/\ ~Given[j].body.isOptional
               /\ Given[j].body.expression.body.type = "NothingLiteral"
               /\ Reached(Given, j, Last.frames))
              => stderr = <<"NullToNonOptional">>

\* C7: after a module of Declarations, every cell holds nothing or a value of
\* the kind its type (its internalType when optional) names, and a
\* Declaration of a value of another kind is reported as TypeMismatch
C7_CellKindMatchesType ==
    (Ran /\ OnlyDeclarations(Given)) =>
        /\ \A c \in GlobalCells :
              c.value.type # "NothingLiteral" =>
                  valueToDataType(c.value.type) =
                      (IF c.type = "optional" THEN c.internalType ELSE c.type)
        /\ \A j \in DOMAIN Given :
              (/\ Given[j].body.dataType.present
               /\ Given[j].body.expression.body.type # "NothingLiteral"
               /\ valueToDataType(Given[j].body.expression.body.type)
                    # (IF Given[j].body.isOptional
                       THEN Given[j].body.dataType.internalType
                       ELSE Given[j].body.dataType.value)
               /\ Reached(Given, j, Last.frames))
              => stderr = <<"TypeMismatch">>

\* C8: a RuntimeException raised by a statement is reported once on stderr,
\* nothing after that statement is executed and execute returns; any other
\* exception is thrown again as it came, with nothing on stderr
C8_RuntimeErrorReportedAndHalts ==
    Ran =>
        /\ Last.exc.kind = "RuntimeException" =>
              /\ Last.outcome = "returned"
              /\ Last.thrown = NoException
              /\ stderr = <<Last.exc.name>>
              /\ LET halted == RunOf(Prefix(Given, FirstFailing(Given, Last.frames)),
                                     Last.frames)
                 IN /\ memory = halted.st.memory
                    /\ stdout = halted.st.stdout
                    /\ loaded = halted.st.loaded
        /\ Last.exc.kind \in {"Error", "ControlFlowException"} =>
              /\ Last.outcome = "raised"
              /\ Last.thrown = Last.exc
              /\ stderr = <<>>
        /\ Last.exc.kind = "none" => Last.outcome = "returned" /\ stderr = <<>>

\* a runtime error raised inside an imported module, and one raised by a
\* statement that 'end' follows: neither run prints 'end'
C8_Witness ==
    /\ Ran /\ Last.exc.kind = "RuntimeException" /\ stderr = <<Last.exc.name>>
    /\ Len(Given) >= 2 /\ Given[Len(Given)] = PrintEnd
    /\ FirstFailing(Given, Last.frames) < Len(Given)
    /\ \A i \in DOMAIN stdout : stdout[i].text # "end"
    /\ Last.outcome = "returned"

\* an exception that is no RuntimeException leaves execute as it came
C8_WitnessRaised ==
    /\ Ran /\ Last.exc = Error("InternalAssignmentError")
    /\ Last.outcome = "raised" /\ Last.thrown = Last.exc /\ stderr = <<>>

ByModule(e) == e.by = "executeModule"
\* what executeModule itself put on stdout
ModuleEmissions == SelectSeq(stdout, ByModule)
\* the emission the claim gives statement j: the text of its result
ExpectedEmission(statements, j, frames) ==
    LET before == RunOf(Prefix(statements, j - 1), frames).st
        result == executeStatement(statements[j], before, 0).val
    IN IF /\ statements[j].body.type \in {"Expression", "ReturnStatement"}
          /\ result.type \notin {"undefined", "NothingLiteral"}
       THEN <<[by |-> "executeModule", text |-> convertValueToText(result).value]>>
       ELSE <<>>
RECURSIVE ExpectedEmissions(_, _, _, _)
ExpectedEmissions(statements, j, upto, frames) ==
    IF j > upto THEN <<>>
    ELSE ExpectedEmission(statements, j, frames)
         \o ExpectedEmissions(statements, j + 1, upto, frames)

\* C9: executeModule prints, in statement order, the text of each statement
\* after the leading imports whose result is a value other than nothing, and
\* nothing else (the imported modules print theirs first)
C9_StdoutIsTheStatementsResults ==
    Ran =>
        LET n == LeadingImports(Given)
            failing == FirstFailing(Given, Last.frames)
            upto == IF failing = 0 THEN Len(Given) ELSE failing
            imported == SelectSeq(RunOf(Prefix(Given, n), Last.frames).st.stdout,
                                  ByModule)
        IN ModuleEmissions = imported \o ExpectedEmissions(Given, n + 1, upto, Last.frames)

\* a clean run of f(:1:), g(::) and 'end' after the import of lib: f's result
\* and 'end' are printed, g's nothing is not
C9_Witness ==
    /\ Ran /\ Last.exc.kind = "none"
    /\ Given = <<ImportLib, CallOf("f", <<Expr(Num(1))>>), CallOf("g", <<>>), PrintEnd>>
    /\ stdout = <<[by |-> "executeModule", text |-> "lib"],
                  [by |-> "executeModule", text |-> "one"],
                  [by |-> "executeModule", text |-> "end"]>>

RECURSIVE PathsOf(_, _)
\* the paths of the first n statements, all import statements
PathsOf(statements, n) ==
    IF n = 0 THEN <<>> ELSE Append(PathsOf(statements, n - 1), statements[n].body.value)
\* index of the first import statement after the leading run, 0 when none
LateImport(statements) ==
    LET n == LeadingImports(statements)
        rest == SubSeq(statements, n + 1, Len(statements))
        j == FirstOfKind(rest, "ImportStatement")
    IN IF j = 0 THEN 0 ELSE n + j

\* C10: an import statement reached after a statement that is no import
\* raises ImportNotAtTop: only the leading imports' files are loaded, and
\* nothing after the import statement is executed
C10_LateImportRejected ==
    Ran => LET j == LateImport(Given)
           IN (j > 0 /\ Reached(Given, j, Last.frames)) =>
                 /\ Last.exc = RuntimeException("ImportNotAtTop")
                 /\ loaded = PathsOf(Given, LeadingImports(Given))
                 /\ LET before == RunOf(Prefix(Given, j - 1), Last.frames).st
                    IN memory = before.memory /\ stdout = before.stdout

\* import 'bad' stands after a statement and before 'end'
C10_Witness ==
    /\ Ran /\ LateImport(Given) > 1 /\ LateImport(Given) < Len(Given)
    /\ Reached(Given, LateImport(Given), Last.frames)
    /\ Given[1] = ImportLib /\ Given[Len(Given)] = PrintEnd
    /\ stderr = <<"ImportNotAtTop">> /\ loaded = <<"lib">>
    /\ \A i \in DOMAIN stdout : stdout[i].text # "end"

\* C11: execute leaves the module's statement list as it found it, so a
\* second execute of the same ModuleNode is given the same statements and
\* puts the same sequence on stdout
C11_ModuleNotMutated ==
    \A i \in DOMAIN history :
        /\ history[i].after = history[i].statements
        /\ (i > 1 /\ history[i].statements = history[i - 1].after)
              => history[i].stdout = history[i - 1].stdout

\* an interpreter on which nothing has run
FreshInterpreter ==
    [memory |-> <<EmptyScope>>, state |-> <<>>, stdout |-> <<>>, stderr |-> <<>>,
     loaded |-> <<>>, calls |-> <<>>]

\* C12: every execute call starts from a single empty global scope: it
\* leaves the memory, the stdout and the error that the same module leaves
\* on an interpreter on which nothing has run, and a re-run of the same
\* statements ends as the run before it did
C12_EachRunStartsEmpty ==
    /\ Ran => \A fresh \in {executeModule(Given, FreshInterpreter, 0)} :
                 /\ memory = fresh.st.memory
                 /\ stdout = fresh.st.stdout
                 /\ Last.exc = fresh.exc
    /\ \A i \in DOMAIN history :
          (i > 1 /\ history[i].statements = history[i - 1].statements)
            => /\ history[i].exc = history[i - 1].exc
               /\ history[i].stdout = history[i - 1].stdout

\* import 'lib' and f(::) run twice from the source: the first run left a
\* scope and a frame pushed, the second ends with the same ArityMismatch
C12_Witness ==
    /\ Len(history) = 2
    /\ source = <<ImportLib, CallOf("f", <<>>)>>
    /\ history[1].statements = source /\ history[2].statements = source
    /\ history[2].frames # <<>>
    /\ history[2].exc = RuntimeException("ArityMismatch")
    /\ stderr = <<"ArityMismatch">>
    /\ DOMAIN memory[1] = {"f", "g", "h", "k"}

\* the source text is QUACK l <- left  QUACK r <- left op right
IsBinaryModule ==
    /\ Ran /\ Len(Given) = 2
    /\ Given[2].body.type = "Declaration"
    /\ Given[2].body.expression.body.type = "BinaryExpression"
LeftOperand == Given[1].body.expression.body
RightOperand == Given[2].body.expression.body.right.body
Operator == Given[2].body.expression.body.operator
\* the binary expression returned this value, which the cell r holds
Returned(v) ==
    /\ Last.exc = NoException /\ stderr = <<>>
    /\ "r" \in DOMAIN memory[1] /\ memory[1]["r"].value = v
\* the binary expression returned a value of this kind
ReturnedKind(kind) ==
    /\ Last.exc = NoException /\ stderr = <<>>
    /\ "r" \in DOMAIN memory[1] /\ memory[1]["r"].value.type = kind
\* the binary expression raised this runtime error, and no cell r was stored
Raised(name) ==
    /\ Last.exc = RuntimeException(name) /\ stderr = <<name>>
    /\ "r" \notin DOMAIN memory[1]

\* C13: on two operands of different kinds '==' gives false, '!=' gives
\* true and every other operator raises InvalidBinaryExpression
C13_CrossTypeRule ==
    (IsBinaryModule /\ LeftOperand.type # RightOperand.type) =>
        CASE Operator = "==" -> Returned(Bool(FALSE))
          [] Operator = "!=" -> Returned(Bool(TRUE))
          [] OTHER -> Raised("InvalidBinaryExpression")

\* 1 != 'a' with the 1 read from the identifier l; nothing + (:0, 0:) raised
C13_Witness ==
    /\ IsBinaryModule
    /\ LeftOperand = Num(1) /\ RightOperand = Text("a") /\ Operator = "!="
    /\ Given[2].body.expression.body.left = Id("l")
    /\ Returned(Bool(TRUE))

Arithmetic == {"+", "-", "*", "/", "%"}
Comparison == {"==", "!=", "<", "<=", ">", ">="}

\* C14: on two numbers an arithmetic operator gives a NumberLiteral, a
\* comparison operator a BooleanLiteral, and && and || raise
\* InvalidBinaryExpression
C14_NumberResultKinds ==
    (IsBinaryModule /\ LeftOperand.type = "NumberLiteral"
                    /\ RightOperand.type = "NumberLiteral") =>
        CASE Operator \in Arithmetic -> ReturnedKind("NumberLiteral")
          [] Operator \in Comparison -> ReturnedKind("BooleanLiteral")
          [] OTHER -> Raised("InvalidBinaryExpression")

\* 1 / 0 is the NumberLiteral Infinity
C14_Witness ==
    /\ IsBinaryModule
    /\ LeftOperand = Num(1) /\ RightOperand = Num(0) /\ Operator = "/"
    /\ Returned([type |-> "NumberLiteral", value |-> <<1, 0>>])

\* -3 && 1 raised
C14_WitnessRaised ==
    /\ IsBinaryModule
    /\ LeftOperand = Num(-3) /\ RightOperand = Num(1) /\ Operator = "&&"
    /\ Raised("InvalidBinaryExpression")

\* the source text is if c {: QUACK t <- 1 :} else {: QUACK e <- 2 :}  'end'
IsIfModule == Ran /\ Len(Given) = 2 /\ Given[1].body.type = "IfStatement"
\* the value of the condition
ConditionValue == executeExpressionNode(Given[1].body.condition, FreshInterpreter, 0).val
\* the run declared exactly these identifiers, raised nothing and went on to 'end'
RanBlock(ids) ==
    /\ Last.exc = NoException /\ stderr = <<>>
    /\ DOMAIN memory[1] = ids
    /\ stdout = <<[by |-> "executeModule", text |-> "end"]>>

\* C15: the trueBlock runs exactly when the condition is true; on false or
\* nothing the falseBlock runs when there is one; a condition of any other
\* kind raises NonBooleanCondition and no block runs
C15_IfTruthiness ==
    IsIfModule =>
        \A v \in {ConditionValue} :
            CASE v = Bool(TRUE) -> RanBlock({"t"})
              [] v = Bool(FALSE) \/ v = Nothing ->
                    RanBlock(IF Given[1].body.hasFalse THEN {"e"} ELSE {})
              [] OTHER ->
                    /\ Last.exc = RuntimeException("NonBooleanCondition")
                    /\ stderr = <<"NonBooleanCondition">>
                    /\ DOMAIN memory[1] = {}
                    /\ stdout = <<>>

\* if nothing ... else ...: the falseBlock ran
C15_Witness ==
    /\ IsIfModule
    /\ Given[1].body.condition = Expr(Nothing) /\ Given[1].body.hasFalse
    /\ RanBlock({"e"})

\* if 0 ...: raised, no block ran
C15_WitnessRaised ==
    /\ IsIfModule
    /\ Given[1].body.condition = Expr(Num(0))
    /\ stderr = <<"NonBooleanCondition">> /\ DOMAIN memory[1] = {}

\* the source text begins with the import of a module that imports itself
\* (loop), or of one that is imported back by the module it imports (ping)
ImportsCycle ==
    /\ Ran /\ Given # <<>>
    /\ Given[1].body.type = "ImportStatement"
    /\ Given[1].body.value \in {"loop", "ping"}

\* C16: a module whose imports reach a module already being imported ends
\* with the runtime error ImportCycle
C16_ImportCycleRaised ==
    ImportsCycle =>
        /\ Last.exc = RuntimeException("ImportCycle")
        /\ Last.outcome = "returned"
        /\ stderr = <<"ImportCycle">>

\* the calls that ended between two states of the interpreter, as
\* <<identifier, exit>> in order of exit
ExitsSince(before, after) ==
    [i \in 1..(Len(after.calls) - Len(before.calls)) |->
        <<after.calls[Len(before.calls) + i].identifier,
          after.calls[Len(before.calls) + i].exit>>]
\* the call returned this value, these calls ended during it, and the
\* memory is as it was before the call
CallGave(before, r, val, exits) ==
    /\ r.exc = NoException /\ r.val = val
    /\ ExitsSince(before, r.st) = exits
    /\ r.st.memory = before.memory
ReturningCalls ==
    {CallOf("f", <<Expr(Num(1))>>), CallOf("g", <<>>), CallOf("h", <<Expr(Num(2))>>)}

\* C17: a call's value is the value of the first ReturnStatement its body
\* reaches, if-blocks included (f(:1:) is 'one', not 2), nothing when it
\* reaches none (g), and a callee's Return ends the callee only (h goes on
\* to call g and to return what f gave it)
C17_ReturnEndsTheCallee ==
    (Ran /\ Given # <<>> /\ Given[1] = ImportLib) =>
        \A j \in DOMAIN Given :
            (Given[j] \in ReturningCalls /\ Reached(Given, j, Last.frames)) =>
                \A before \in {RunOf(Prefix(Given, j - 1), Last.frames).st} :
                \A r \in {executeStatement(Given[j], before, 0)} :
                    /\ Given[j] = CallOf("f", <<Expr(Num(1))>>) =>
                          CallGave(before, r, Text("one"), <<<<"f", "Return">>>>)
                    /\ Given[j] = CallOf("g", <<>>) =>
                          CallGave(before, r, Nothing, <<<<"g", "normal">>>>)
                    /\ Given[j] = CallOf("h", <<Expr(Num(2))>>) =>
                          CallGave(before, r, Num(3),
                                   <<<<"f", "Return">>, <<"g", "normal">>,
                                     <<"h", "Return">>>>)
                    /\ j = Len(Given) => (memory = r.st.memory /\ calls = r.st.calls)

\* h(:2:) then f(:1:) after the import of lib
C17_Witness ==
    /\ Ran /\ Last.exc = NoException
    /\ Given = <<ImportLib, CallOf("h", <<Expr(Num(2))>>), CallOf("f", <<Expr(Num(1))>>)>>
    /\ stdout = <<[by |-> "executeModule", text |-> "lib"],
                  [by |-> "executeModule", text |-> "3"],
                  [by |-> "executeModule", text |-> "one"]>>
    /\ Len(calls) = 4 /\ calls[2].identifier = "g" /\ calls[2].exit = "normal"
    /\ calls[3].identifier = "h" /\ calls[3].exit = "Return"

\* the source text ends with a call statement, after its leading imports
EndsWithCall ==
    /\ Ran /\ Given # <<>>
    /\ Given[Len(Given)].body.type = "Expression"
    /\ Given[Len(Given)].body.body.type = "FuncCallNode"
    /\ LeadingImports(Given) = Len(Given) - 1
    /\ Reached(Given, Len(Given), Last.frames)
LastCall == Given[Len(Given)].body.body
\* the interpreter when the leading imports have run
AfterImports == RunOf(Prefix(Given, Len(Given) - 1), Last.frames).st

RECURSIVE ArgumentsFrom(_, _, _, _)
\* the arguments evaluated in order from argument i on, up to the first
\* whose kind is not its parameter's type: the interpreter after them, and
\* the index of that argument (0 when there is none)
ArgumentsFrom(params, args, i, st) ==
    IF i > Len(args) THEN [st |-> st, mismatch |-> 0, threw |-> FALSE]
    ELSE LET a == executeExpressionNode(args[i], st, 1)
         IN IF Threw(a) THEN [st |-> a.st, mismatch |-> 0, threw |-> TRUE]
            ELSE IF valueToDataType(a.val.type) # params[i].dataType
            THEN [st |-> a.st, mismatch |-> i, threw |-> FALSE]
            ELSE ArgumentsFrom(params, args, i + 1, a.st)

\* the run ended with this error, raised by the call before its body ran:
\* stdout and the calls made are those of the arguments evaluated so far
RejectedCall(name, evaluated) ==
    /\ Last.exc = RuntimeException(name) /\ stderr = <<name>>
    /\ stdout = evaluated.stdout
    /\ ExitsSince(AfterImports, [calls |-> calls])
         = Append(ExitsSince(AfterImports, evaluated), <<LastCall.identifier, "throw">>)

\* C18: a call with a wrong number of arguments raises ArityMismatch with no
\* argument evaluated; the first argument of a wrong kind raises
\* ArgumentTypeMismatch with no later argument evaluated; the body or
\* routine runs in neither case, and puts nothing on stdout
C18_ArgumentsChecked ==
    EndsWithCall =>
        \A m \in {MemoryGet(AfterImports.memory, LastCall.identifier)} :
            (m.found /\ m.cell.type \in {"func", "internalFunc"}) =>
                IF Len(m.cell.value.parameters) # Len(LastCall.args)
                THEN RejectedCall("ArityMismatch", AfterImports)
                ELSE \A e \in {ArgumentsFrom(m.cell.value.parameters, LastCall.args,
                                             1, AfterImports)} :
                        /\ e.mismatch > 0 => RejectedCall("ArgumentTypeMismatch", e.st)
                        /\ (e.mismatch = 0 /\ ~e.threw) =>
                              /\ Last.exc = NoException
                              /\ calls[Len(calls)].identifier = LastCall.identifier
                              /\ calls[Len(calls)].exit # "throw"

\* two(:'x', g(::):): the first argument is no number, g is never called
C18_Witness ==
    /\ EndsWithCall
    /\ LastCall = Call("two", <<Expr(Text("x")), Expr(Call("g", <<>>))>>)
    /\ stderr = <<"ArgumentTypeMismatch">>
    /\ Len(calls) = 1 /\ calls[1].identifier = "two" /\ calls[1].exit = "throw"
    /\ stdout = <<[by |-> "executeModule", text |-> "lib"],
                  [by |-> "executeModule", text |-> "top"]>>

\* f(:k(::), 1:): two arguments for one parameter, k is never called
C18_WitnessArity ==
    /\ EndsWithCall
    /\ LastCall = Call("f", <<Expr(Call("k", <<>>)), Expr(Num(1))>>)
    /\ stderr = <<"ArityMismatch">>
    /\ Len(calls) = 1 /\ calls[1].identifier = "f" /\ calls[1].exit = "throw"

\* two(:two(:3, 1:), 'x':): the first argument ran and printed, the second
\* is no number
C18_WitnessLater ==
    /\ EndsWithCall
    /\ LastCall.identifier = "two" /\ LastCall.args[1].body.type = "FuncCallNode"
    /\ LastCall.args[1].body.identifier = "two"
    /\ stderr = <<"ArgumentTypeMismatch">>
    /\ Len(calls) = 3 /\ calls[1].identifier = "quackprint"
    /\ calls[2].exit = "Return" /\ calls[3].exit = "throw"
    /\ stdout[Len(stdout)] = [by |-> "executeInternalFunc", text |-> "two"]

ImportOf(path) == Stmt(ImportStatement(path))
ByModuleText(text) == [by |-> "executeModule", text |-> text]

\* C19: the statements of the leading imports run in the importer's global
\* scope, an import's own imports first, and all of them before the
\* importer's first statement: after import 'top' (which imports lib) lib's
\* and top's cells are there and 'lib', 'top' are printed first; f(:1:) then
\* finds f, a declaration of f raises RedeclarationError; after import
\* 'lib' the import of top raises it, as top declares lib's cells again
C19_ImportsShareTheGlobalScope ==
    /\ (Ran /\ Given # <<>> /\ Given[1] = ImportOf("top")) =>
          /\ loaded = <<"top", "lib">>
          /\ Len(stdout) >= 2
          /\ stdout[1] = ByModuleText("lib") /\ stdout[2] = ByModuleText("top")
          /\ {"f", "g", "h", "k", "two"} \subseteq DOMAIN memory[1]
          /\ memory[1]["f"].value = FuncF /\ memory[1]["two"].value = FuncTwo
          /\ (Len(Given) = 2 /\ Given[2] = CallOf("f", <<Expr(Num(1))>>)) =>
                (Last.exc = NoException /\ stdout[3] = ByModuleText("one"))
          /\ (Len(Given) = 2 /\ Given[2].body.type = "Declaration") =>
                (Last.exc = RuntimeException("RedeclarationError")
                 /\ stderr = <<"RedeclarationError">>)
    /\ (Ran /\ Len(Given) >= 2 /\ Given[1] = ImportOf("lib")
            /\ Given[2] = ImportOf("top")) =>
          /\ Last.exc = RuntimeException("RedeclarationError")
          /\ loaded = <<"lib", "top", "lib">>
          /\ stdout = <<ByModuleText("lib")>>
          /\ DOMAIN memory[1] = {"f", "g", "h", "k"}
          /\ calls = <<>>

\* import 'top', then QUACK two <- 1: top's two is there first
C19_Witness ==
    /\ Ran /\ Len(Given) = 2 /\ Given[1] = ImportOf("top")
    /\ Given[2].body.type = "Declaration" /\ Given[2].body.identifier = "two"
    /\ stderr = <<"RedeclarationError">>
    /\ memory[1]["two"].value = FuncTwo
    /\ stdout = <<ByModuleText("lib"), ByModuleText("top")>>

\* C20: a binary expression on two vectors of the same kind raises
\* InvalidBinaryExpression under every operator, '==' and '!=' included
C20_VectorOperationsRaise ==
    (IsBinaryModule /\ LeftOperand.type = RightOperand.type
                    /\ LeftOperand.type \in {"Vector2Literal", "Vector3Literal"}) =>
        Raised("InvalidBinaryExpression")

\* the source text declares a and b and calls two(:b, a:)
IsSwapModule ==
    /\ Ran /\ Len(Given) = 4
    /\ Given[4] = CallOf("two", <<Expr(Id("b")), Expr(Id("a"))>>)
CallersA == Given[2].body.expression.body
CallersB == Given[3].body.expression.body

\* C21: each parameter is bound to the value its argument has in the
\* caller's scope: two(:b, a:) binds a to the caller's b and b to the
\* caller's a, so it returns the caller's b less the caller's a, and raises
\* ArgumentTypeMismatch when one of the two is no number
C21_ArgumentsReadTheCallersScope ==
    IsSwapModule =>
        IF CallersB.type = "NumberLiteral" /\ CallersA.type = "NumberLiteral"
        THEN /\ Last.exc = NoException
             /\ stdout[Len(stdout)]
                  = ByModuleText(NumberText(NumSub(CallersB.value, CallersA.value)))
        ELSE /\ Last.exc = RuntimeException("ArgumentTypeMismatch")
             /\ stderr = <<"ArgumentTypeMismatch">>

====
